---- MODULE Spec2Model ----
(***************************************************************************)
(* Model of pyattck's Attck class (src/pyattck/attck.py): the process-wide *)
(* (class-level) dataset slots, the lazy loader __load_data, the three     *)
(* framework properties and update().  A call is split into the steps at   *)
(* which Python may switch threads: test of a slot, the get_data call, the *)
(* store of its result, and the construction of the facade.                *)
(***************************************************************************)
EXTENDS Integers, Sequences, FiniteSets, TLC

\* ---- bounds ------------------------------------------------------------
NInst    == 2   \* Attck instances that may be constructed
MaxCalls == 3   \* get_data calls in one run, all data types together
MaxBuilt == 2   \* facade constructions in one run, all frameworks together

\* two threads, the least number that can race; the single-threaded
\* specifications run Main alone
Threads == {"main", "other"}
Main    == "main"

\* ---- names -------------------------------------------------------------
\* class-level slots of Attck
Slots == {"ENTERPRISE_ATTCK_JSON", "MOBILE_ATTCK_JSON", "PRE_ATTCK_JSON",
          "ENTERPRISE_GENERATED_DATA_JSON", "ENTERPRISE_NIST_DATA_JSON"}

\* data_type strings __load_data passes to get_data
DataTypes == {"enterprise", "generated_data", "nist_data", "preattck", "mobile"}

\* the data_type enum of the dataset cache interface, as the design states it
InterfaceEnum == {"enterprise", "preattack", "mobile", "generated_data", "nist_data"}

\* every name the dataset cache may be asked for
Askable == DataTypes \cup InterfaceEnum

Frameworks == {"enterprise", "preattack", "mobile"}

\* what get_data may return: a parsed structure that is empty (falsy in
\* Python) or a non-empty bundle
Contents == {"empty", "full"}

VARIABLES
  slots,     \* slot -> None, or the object a get_data call returned
  calls,     \* data_type -> number of get_data calls made with it
  writes,    \* slot -> number of assignments to the slot
  built,     \* framework -> number of facade objects constructed
  nested,    \* nested[i]: __nested_subtechniques of the i-th instance
  pc,        \* thread -> "idle", "check", "fetch", "store"
  op,        \* thread -> the call in progress
  todo,      \* thread -> slot tests of __load_data still ahead
  ret,       \* thread -> the object get_data returned, about to be stored
  asked,     \* thread -> get_data requests made so far by the call in progress
  result,    \* thread -> what the thread's last finished call returned
  held,      \* a facade a client kept from an earlier call
  objects,   \* the objects of the non-empty enterprise bundle
  seen       \* what the client last read from an accessor of a facade

vars == <<slots, calls, writes, built, nested, pc, op, todo, ret, asked, result, held, objects, seen>>

\* Records list their fields in one fixed order throughout.

\* an object is named by the call that returned it; None is no object
None     == [call |-> 0, content |-> "none"]

NoOp     == [kind |-> "none", inst |-> 0, enterprise |-> FALSE, preattack |-> FALSE, mobile |-> FALSE]
NoResult == [nested |-> FALSE, kind |-> "none", fw |-> "none", bundle |-> None]
\* the exception get_data raised, leaving the call of kind k
Raised(k) == [nested |-> FALSE, kind |-> "error", fw |-> k, bundle |-> None]
Returned == [nested |-> FALSE, kind |-> "ok", fw |-> "none", bundle |-> None]

\* ---- helpers -----------------------------------------------------------
TypeOf(s) ==
  CASE s = "ENTERPRISE_ATTCK_JSON"          -> "enterprise"
    [] s = "ENTERPRISE_GENERATED_DATA_JSON" -> "generated_data"
    [] s = "ENTERPRISE_NIST_DATA_JSON"      -> "nist_data"
    [] s = "PRE_ATTCK_JSON"                 -> "preattck"
    [] s = "MOBILE_ATTCK_JSON"              -> "mobile"

\* the slot a framework's facade is constructed over
MainSlot(fw) ==
  CASE fw = "enterprise" -> "ENTERPRISE_ATTCK_JSON"
    [] fw = "preattack"  -> "PRE_ATTCK_JSON"
    [] fw = "mobile"     -> "MOBILE_ATTCK_JSON"

\* Python truth value: None and empty structures are falsy
Truthy(v) == v.content = "full"

RECURSIVE Sum(_, _)
Sum(f, S) == IF S = {} THEN 0 ELSE LET x == CHOOSE y \in S : TRUE IN f[x] + Sum(f, S \ {x})

TotalCalls == Sum(calls, Askable)

TotalBuilt == built["enterprise"] + built["preattack"] + built["mobile"]

\* ---- __load_data -------------------------------------------------------
\* the slot tests of __load_data(type, force), in program order
LoadDataByEnum(type, force) ==
  IF type = "preattack" THEN
    << [force |-> force, slot |-> "PRE_ATTCK_JSON", data_type |-> "preattack"] >>
  ELSE IF type = "mobile" THEN
    << [force |-> force, slot |-> "MOBILE_ATTCK_JSON", data_type |-> "mobile"] >>
  ELSE
    << [force |-> force, slot |-> "ENTERPRISE_ATTCK_JSON",          data_type |-> "enterprise"],
       [force |-> force, slot |-> "ENTERPRISE_GENERATED_DATA_JSON", data_type |-> "generated_data"],
       [force |-> force, slot |-> "ENTERPRISE_NIST_DATA_JSON",      data_type |-> "nist_data"] >>
LoadDataBundleOnly(type, force) ==
  IF type = "preattack" THEN
    << [force |-> force, slot |-> "PRE_ATTCK_JSON", data_type |-> "preattck"] >>
  ELSE IF type = "mobile" THEN
    << [force |-> force, slot |-> "MOBILE_ATTCK_JSON", data_type |-> "mobile"] >>
  ELSE
    << [force |-> force, slot |-> "ENTERPRISE_ATTCK_JSON", data_type |-> "enterprise"] >>
LoadDataFallThrough(type, force) ==
  (IF type = "preattack" THEN
     << [force |-> force, slot |-> "PRE_ATTCK_JSON", data_type |-> "preattck"] >>
   ELSE << >>)
  \o (IF type = "mobile" THEN
        << [force |-> force, slot |-> "MOBILE_ATTCK_JSON", data_type |-> "mobile"] >>
      ELSE
        << [force |-> force, slot |-> "ENTERPRISE_ATTCK_JSON",          data_type |-> "enterprise"],
           [force |-> force, slot |-> "ENTERPRISE_GENERATED_DATA_JSON", data_type |-> "generated_data"],
           [force |-> force, slot |-> "ENTERPRISE_NIST_DATA_JSON",      data_type |-> "nist_data"] >>)
LoadData(type, force) ==
  IF type = "preattack" THEN
    << [force |-> force, slot |-> "PRE_ATTCK_JSON", data_type |-> "preattck"] >>
  ELSE IF type = "mobile" THEN
    << [force |-> force, slot |-> "MOBILE_ATTCK_JSON", data_type |-> "mobile"] >>
  ELSE
    << [force |-> force, slot |-> "ENTERPRISE_ATTCK_JSON",          data_type |-> "enterprise"],
       [force |-> force, slot |-> "ENTERPRISE_GENERATED_DATA_JSON", data_type |-> "generated_data"],
       [force |-> force, slot |-> "ENTERPRISE_NIST_DATA_JSON",      data_type |-> "nist_data"] >>

\* update(enterprise, preattack, mobile)
UpdatePlanUnforced(e, p, m) ==
  (IF p THEN LoadData("preattack", FALSE) ELSE << >>)
  \o (IF m THEN LoadData("mobile", FALSE) ELSE << >>)
  \o (IF e THEN LoadData("enterprise", FALSE) ELSE << >>)
UpdatePlan(e, p, m) ==
  (IF p THEN LoadData("preattack", TRUE) ELSE << >>)
  \o (IF m THEN LoadData("mobile", TRUE) ELSE << >>)
  \o (IF e THEN LoadData("enterprise", TRUE) ELSE << >>)

\* the slot on entry to its branch of __load_data: nothing is cleared, also
\* when force is set
SlotOnEntryCleared(s, force) == IF force THEN [slots EXCEPT ![s] = None] ELSE slots
SlotOnEntry(s, force) == slots

\* `if not Attck.__X_JSON:` on slot value v, in a call with this force
NeedsLoadIfNone(v, force) == v = None
NeedsLoadAlways(v, force) == TRUE
NeedsLoad(v, force) == ~Truthy(v)

\* the class attributes after get_data raised: no handler, nothing is undone
SlotsAfterRaiseReset == [s \in Slots |-> None]
SlotsAfterRaiseAllOrNothing ==
  [s \in Slots |->
     IF s \in {"ENTERPRISE_ATTCK_JSON", "ENTERPRISE_GENERATED_DATA_JSON",
               "ENTERPRISE_NIST_DATA_JSON"} THEN None ELSE slots[s]]
SlotsAfterRaise == slots

\* the nested_subtechniques argument instance i passes to Enterprise
NestedArgGlobal(i) == nested[Len(nested)]
NestedArg(i) == nested[i]

\* what a facade reports: the object it was constructed with
ReportLive(f) == slots[MainSlot(f.fw)]
Report(f) == f.bundle

\* ---- the enterprise bundle and its facade ------------------------------
\* The Enterprise class and the entity classes are outside this file; their
\* part is modelled from the design: the bundle index (4.1), the entity
\* accessors (4.2), the relationship resolver (4.3) and subtechnique nesting
\* (section 3).

MaxRels == 3   \* relationship objects in a bundle

\* the attack-pattern and course-of-action objects of the bundle, in bundle
\* order, and an id no object of the bundle has
AttackPatterns  == << "T1", "T2", "T3" >>
CoursesOfAction == << "M1" >>
Absent          == "X0"

\* the members of a sequence
Range(s) == {s[i] : i \in 1..Len(s)}

\* the ids of one entity category of the bundle index
Partition(type) ==
  CASE type = "technique"  -> Range(AttackPatterns)
    [] type = "mitigation" -> Range(CoursesOfAction)

EntityIds == Partition("technique") \cup Partition("mitigation")

\* the relationship objects a bundle may hold: subtechnique-of (the source
\* is the subtechnique, the target its parent) from T2 towards a technique,
\* towards another subtechnique or towards a missing object, and from T3
\* towards T1; mitigates between a mitigation and a technique, from a
\* technique, towards a mitigation or from a missing object
Relationships ==
  {[source |-> "T2", target |-> t, relationship_type |-> "subtechnique-of"] :
     t \in {"T1", "T3", Absent}}
  \cup {[source |-> "T3", target |-> "T1", relationship_type |-> "subtechnique-of"]}
  \cup {[source |-> "M1", target |-> t, relationship_type |-> "mitigates"] :
          t \in {"T1", "T2", "M1"}}
  \cup {[source |-> s, target |-> "T1", relationship_type |-> "mitigates"] :
          s \in {"T3", Absent}}

\* the attack-patterns that may carry x_mitre_is_subtechnique
Flaggable == {"T2", "T3"}

\* the parsed bundles: which attack-patterns carry the flag, and the
\* relationship objects in bundle order
Bundles ==
  [flagged : SUBSET Flaggable,
   rels : UNION {[1..n -> Relationships] : n \in 0..MaxRels}]

NoObjects == [flagged |-> {}, rels |-> << >>]
NoView    == [nested |-> FALSE, accessor |-> "none", of |-> "none", out |-> << >>]

\* 4.1: a relationship that references an id absent from the entity map is
\* skipped when the index is built
IndexedRels(b) ==
  LET Known(e) == e.source \in EntityIds /\ e.target \in EntityIds
  IN SelectSeq(b.rels, Known)

\* 4.3: deduplicate by id, first-seen order kept
RECURSIVE Dedup(_)
Dedup(s) ==
  IF s = << >> THEN << >>
  ELSE LET front == Dedup(SubSeq(s, 1, Len(s) - 1))
           last  == s[Len(s)]
       IN IF last \in Range(front) THEN front ELSE Append(front, last)

\* 4.3: resolve(index, entity_id, target_type, relationship_type, direction);
\* side is the end of the edge entity_id stands on
Resolve(b, entity_id, target_type, relationship_type, side) ==
  LET Mine(e)  == (IF side = "source" THEN e.source ELSE e.target) = entity_id
      Typed(e) == e.relationship_type = relationship_type
      edges    == SelectSeq(SelectSeq(IndexedRels(b), Mine), Typed)
      opposite == [i \in 1..Len(edges) |->
                     IF side = "source" THEN edges[i].target ELSE edges[i].source]
      InType(x) == x \in Partition(target_type)
  IN Dedup(SelectSeq(opposite, InType))

\* 4.4 and section 3: facade.techniques; with nesting the attack-patterns
\* that carry the subtechnique flag are left out of the top level
Techniques(b, nestedFlag) ==
  LET TopLevel(x) == ~nestedFlag \/ x \notin b.flagged
  IN SelectSeq(AttackPatterns, TopLevel)

\* facade.mitigations
Mitigations(b) == CoursesOfAction

\* technique.subtechniques of a facade with nesting: the sources of the
\* subtechnique-of edges that point at the technique
Subtechniques(b, parent) ==
  Resolve(b, parent, "technique", "subtechnique-of", "target")

\* technique.mitigations: the technique is the target of mitigates
MitigationsOf(b, technique) ==
  Resolve(b, technique, "mitigation", "mitigates", "target")

\* mitigation.techniques: the mitigation is the source of mitigates
TechniquesOfSameSide(b, mitigation) ==
  Resolve(b, mitigation, "technique", "mitigates", "target")
TechniquesOf(b, mitigation) ==
  Resolve(b, mitigation, "technique", "mitigates", "source")

\* ---- initial state -----------------------------------------------------
Init ==
  /\ slots  = [s \in Slots |-> None]
  /\ calls  = [d \in Askable |-> 0]
  /\ writes = [s \in Slots |-> 0]
  /\ built  = [f \in Frameworks |-> 0]
  /\ nested = << >>
  /\ pc     = [t \in Threads |-> "idle"]
  /\ op     = [t \in Threads |-> NoOp]
  /\ todo   = [t \in Threads |-> << >>]
  /\ ret    = [t \in Threads |-> None]
  /\ asked  = [t \in Threads |-> {}]
  /\ result = [t \in Threads |-> NoResult]
  /\ held   = NoResult
  /\ objects = NoObjects
  /\ seen   = NoView

\* ---- actions -----------------------------------------------------------
\* the nested_subtechniques argument of the i-th constructor call: the first
\* instance takes the default True, the next False, and so on in turn
FlagGiven(i) == i % 2 = 1

\* Attck(nested_subtechniques=FlagGiven(i)) constructs the i-th instance
Construct ==
  /\ Len(nested) < NInst
  /\ nested' = Append(nested, FlagGiven(Len(nested) + 1))
  /\ UNCHANGED <<slots, calls, writes, built, pc, op, todo, ret, asked, result, held, objects, seen>>

\* thread t enters a call on instance i; plan is the run of __load_data
\* calls the call makes.  Only the enterprise property reads a field of the
\* instance after this point, so only it remembers the receiver.
Begin(t, kind, i, e, p, m, plan) ==
  /\ pc[t] = "idle"
  /\ i \in 1..Len(nested)
  /\ kind \in Frameworks => TotalBuilt < MaxBuilt
  /\ op' = [op EXCEPT ![t] = [kind |-> kind, inst |-> IF kind = "enterprise" THEN i ELSE 0,
                               enterprise |-> e, preattack |-> p, mobile |-> m]]
  /\ todo' = [todo EXCEPT ![t] = plan]
  /\ asked' = [asked EXCEPT ![t] = {}]
  /\ result' = [result EXCEPT ![t] = NoResult]
  /\ pc' = [pc EXCEPT ![t] = "check"]
  /\ UNCHANGED <<slots, calls, writes, built, nested, ret, held, objects, seen>>

\* reading instance.enterprise / .preattack / .mobile
Read(t, i, fw) ==
  Begin(t, fw, i, FALSE, FALSE, FALSE, LoadData(fw, FALSE))

\* instance.update(enterprise=e, preattack=p, mobile=m)
Update(t, i, e, p, m) ==
  Begin(t, "update", i, e, p, m, UpdatePlan(e, p, m))

\* `if not Attck.__X_JSON:`
Check(t) ==
  /\ pc[t] = "check"
  /\ todo[t] # << >>
  /\ LET b == Head(todo[t]) IN
       /\ slots' = SlotOnEntry(b.slot, b.force)
       /\ IF NeedsLoad(slots'[b.slot], b.force)
            THEN /\ pc' = [pc EXCEPT ![t] = "fetch"]
                 /\ todo' = todo
            ELSE /\ pc' = pc
                 /\ todo' = [todo EXCEPT ![t] = Tail(todo[t])]
  /\ UNCHANGED <<calls, writes, built, nested, op, ret, asked, result, held, objects, seen>>

\* self.__datasets.get_data(data_type=..., force=...) returns
Fetch(t, out) ==
  /\ pc[t] = "fetch"
  /\ out \in Contents
  /\ TotalCalls < MaxCalls
  /\ LET b == Head(todo[t])
         k == calls[b.data_type] + 1 IN
       /\ calls' = [calls EXCEPT ![b.data_type] = k]
       /\ asked' = [asked EXCEPT ![t] = @ \cup {[call |-> k, force |-> b.force, data_type |-> b.data_type]}]
       /\ ret' = [ret EXCEPT ![t] = [call |-> k, content |-> out]]
  /\ pc' = [pc EXCEPT ![t] = "store"]
  /\ UNCHANGED <<slots, writes, built, nested, op, todo, result, held, objects, seen>>

\* get_data raises; the exception leaves __load_data and the caller
FetchRaise(t) ==
  /\ pc[t] = "fetch"
  /\ TotalCalls < MaxCalls
  /\ LET b == Head(todo[t]) IN
       calls' = [calls EXCEPT ![b.data_type] = @ + 1]
  /\ slots' = SlotsAfterRaise
  /\ todo' = [todo EXCEPT ![t] = << >>]
  /\ result' = [result EXCEPT ![t] = Raised(op[t].kind)]
  /\ op' = [op EXCEPT ![t] = NoOp]
  /\ asked' = [asked EXCEPT ![t] = {}]
  /\ pc' = [pc EXCEPT ![t] = "idle"]
  /\ UNCHANGED <<writes, built, nested, ret, held, objects, seen>>

\* `Attck.__X_JSON = <result of get_data>`
Store(t) ==
  /\ pc[t] = "store"
  /\ LET b == Head(todo[t]) IN
       /\ slots' = [slots EXCEPT ![b.slot] = ret[t]]
       /\ writes' = [writes EXCEPT ![b.slot] = @ + 1]
  /\ todo' = [todo EXCEPT ![t] = Tail(todo[t])]
  /\ ret' = [ret EXCEPT ![t] = None]
  /\ pc' = [pc EXCEPT ![t] = "check"]
  /\ UNCHANGED <<calls, built, nested, op, asked, result, held, objects, seen>>

\* `return Enterprise(self.__ENTERPRISE_ATTCK_JSON, nested_subtechniques=...)`
\* and its PreAttck / MobileAttck counterparts (which take no nested flag)
BuildFacade(t) ==
  /\ pc[t] = "check"
  /\ todo[t] = << >>
  /\ op[t].kind \in Frameworks
  /\ TotalBuilt < MaxBuilt
  /\ LET fw == op[t].kind IN
       /\ result' = [result EXCEPT ![t] =
                       [nested |-> IF fw = "enterprise" THEN NestedArg(op[t].inst) ELSE FALSE,
                        kind |-> "facade", fw |-> fw, bundle |-> slots[MainSlot(fw)]]]
       /\ built' = [built EXCEPT ![fw] = @ + 1]
  /\ op' = [op EXCEPT ![t] = NoOp]
  /\ asked' = [asked EXCEPT ![t] = {}]
  /\ pc' = [pc EXCEPT ![t] = "idle"]
  /\ UNCHANGED <<slots, calls, writes, nested, todo, ret, held, objects, seen>>

\* update() returns None
UpdateReturn(t) ==
  /\ pc[t] = "check"
  /\ todo[t] = << >>
  /\ op[t].kind = "update"
  /\ result' = [result EXCEPT ![t] = Returned]
  /\ op' = [op EXCEPT ![t] = NoOp]
  /\ asked' = [asked EXCEPT ![t] = {}]
  /\ pc' = [pc EXCEPT ![t] = "idle"]
  /\ UNCHANGED <<slots, calls, writes, built, nested, todo, ret, held, objects, seen>>

\* the caller keeps the facade it was given
Keep(t) ==
  /\ pc[t] = "idle"
  /\ result[t].kind = "facade"
  /\ held = NoResult
  /\ held' = result[t]
  /\ UNCHANGED <<slots, calls, writes, built, nested, pc, op, todo, ret, asked, result, objects, seen>>

\* the steps of a property read
ReadCall(t) ==
  \/ \E i \in 1..NInst, fw \in Frameworks : Read(t, i, fw)
  \/ Check(t)
  \/ \E out \in Contents : Fetch(t, out)
  \/ FetchRaise(t)
  \/ Store(t)
  \/ BuildFacade(t)

\* the steps of any call
Call(t) ==
  \/ ReadCall(t)
  \/ \E i \in 1..NInst, e, p, m \in BOOLEAN : Update(t, i, e, p, m)
  \/ UpdateReturn(t)

\* the steps of an update call that names at most one framework
OneFlag(e, p, m) == (e => ~p /\ ~m) /\ (p => ~m)
UpdateCall(t) ==
  \/ \E i \in 1..NInst, e, p, m \in BOOLEAN : OneFlag(e, p, m) /\ Update(t, i, e, p, m)
  \/ Check(t)
  \/ \E out \in Contents : Fetch(t, out)
  \/ FetchRaise(t)
  \/ Store(t)
  \/ UpdateReturn(t)

Step(t) == Call(t) \/ Keep(t)

ReadStep(t) == ReadCall(t) \/ Keep(t)

\* one thread, every operation
Next == Construct \/ Step(Main)
Spec == Init /\ [][Next]_vars

\* one thread, property reads only (no update)
NextReads == Construct \/ ReadStep(Main)
SpecReads == Init /\ [][NextReads]_vars

\* the concurrent specifications start with the instances constructed
InitConc ==
  /\ slots  = [s \in Slots |-> None]
  /\ calls  = [d \in Askable |-> 0]
  /\ writes = [s \in Slots |-> 0]
  /\ built  = [f \in Frameworks |-> 0]
  /\ nested = [i \in 1..NInst |-> FlagGiven(i)]
  /\ pc     = [t \in Threads |-> "idle"]
  /\ op     = [t \in Threads |-> NoOp]
  /\ todo   = [t \in Threads |-> << >>]
  /\ ret    = [t \in Threads |-> None]
  /\ asked  = [t \in Threads |-> {}]
  /\ result = [t \in Threads |-> NoResult]
  /\ held   = NoResult
  /\ objects = NoObjects
  /\ seen   = NoView

\* a thread reading the properties beside a thread that loads or
\* force-refreshes through update
NextConc == ReadCall(Main) \/ (\E t \in Threads \ {Main} : UpdateCall(t))
SpecConc == InitConc /\ [][NextConc]_vars

\* two threads reading the properties
NextConcReads == \E t \in Threads : ReadCall(t)
SpecConcReads == InitConc /\ [][NextConcReads]_vars

\* the steps of a property read while every get_data call returns a
\* non-empty value
ReadCallLoaded(t) ==
  \/ \E i \in 1..NInst, fw \in Frameworks : Read(t, i, fw)
  \/ Check(t)
  \/ Fetch(t, "full")
  \/ Store(t)
  \/ BuildFacade(t)

\* two threads reading the properties, every request answered with a bundle
NextConcLoaded == \E t \in Threads : ReadCallLoaded(t)
SpecConcLoaded == InitConc /\ [][NextConcLoaded]_vars

\* ---- reading a facade ---------------------------------------------------
\* both instances have read enterprise over one loaded bundle: the first
\* holds a facade with nesting, the second one without
BothFacades ==
  /\ slots  = [s \in Slots |->
                 IF s \in {"ENTERPRISE_ATTCK_JSON", "ENTERPRISE_GENERATED_DATA_JSON",
                           "ENTERPRISE_NIST_DATA_JSON"}
                   THEN [call |-> 1, content |-> "full"] ELSE None]
  /\ calls  = [d \in Askable |->
                 IF d \in {"enterprise", "generated_data", "nist_data"} THEN 1 ELSE 0]
  /\ writes = [s \in Slots |-> IF slots[s] = None THEN 0 ELSE 1]
  /\ built  = [f \in Frameworks |-> IF f = "enterprise" THEN 2 ELSE 0]
  /\ nested = [i \in 1..NInst |-> FlagGiven(i)]
  /\ pc     = [t \in Threads |-> "idle"]
  /\ op     = [t \in Threads |-> NoOp]
  /\ todo   = [t \in Threads |-> << >>]
  /\ ret    = [t \in Threads |-> None]
  /\ asked  = [t \in Threads |-> {}]
  /\ held   = [nested |-> NestedArg(1), kind |-> "facade", fw |-> "enterprise",
               bundle |-> slots["ENTERPRISE_ATTCK_JSON"]]
  /\ result = [t \in Threads |->
                 IF t = Main
                   THEN [nested |-> NestedArg(2), kind |-> "facade", fw |-> "enterprise",
                         bundle |-> slots["ENTERPRISE_ATTCK_JSON"]]
                   ELSE NoResult]

InitGraph ==
  /\ BothFacades
  /\ objects \in Bundles
  /\ seen = NoView

\* the facades the client has in hand
Facades == {f \in {held, result[Main]} : f.kind = "facade" /\ f.fw = "enterprise"}

\* facade.techniques
ReadTechniques(f) ==
  /\ f \in Facades
  /\ seen' = [nested |-> f.nested, accessor |-> "techniques", of |-> "facade",
              out |-> Techniques(objects, f.nested)]
  /\ UNCHANGED <<slots, calls, writes, built, nested, pc, op, todo, ret, asked, result, held, objects>>

\* technique.subtechniques, for a technique of a facade with nesting
ReadSubtechniques(f, parent) ==
  /\ f \in Facades
  /\ f.nested
  /\ parent \in Range(Techniques(objects, f.nested))
  /\ seen' = [nested |-> f.nested, accessor |-> "subtechniques", of |-> parent,
              out |-> Subtechniques(objects, parent)]
  /\ UNCHANGED <<slots, calls, writes, built, nested, pc, op, todo, ret, asked, result, held, objects>>

\* technique.mitigations
ReadMitigations(f, technique) ==
  /\ f \in Facades
  /\ technique \in Partition("technique")
  /\ seen' = [nested |-> f.nested, accessor |-> "mitigations", of |-> technique,
              out |-> MitigationsOf(objects, technique)]
  /\ UNCHANGED <<slots, calls, writes, built, nested, pc, op, todo, ret, asked, result, held, objects>>

\* mitigation.techniques
ReadMitigationTechniques(f, mitigation) ==
  /\ f \in Facades
  /\ mitigation \in Range(Mitigations(objects))
  /\ seen' = [nested |-> f.nested, accessor |-> "techniques", of |-> mitigation,
              out |-> TechniquesOf(objects, mitigation)]
  /\ UNCHANGED <<slots, calls, writes, built, nested, pc, op, todo, ret, asked, result, held, objects>>

\* a client reading the two facades over one bundle
NextGraph ==
  \/ \E f \in Facades : ReadTechniques(f)
  \/ \E f \in Facades, p \in Partition("technique") : ReadSubtechniques(f, p)
  \/ \E f \in Facades, t \in Partition("technique") : ReadMitigations(f, t)
  \/ \E f \in Facades, m \in Partition("mitigation") : ReadMitigationTechniques(f, m)
SpecGraph == InitGraph /\ [][NextGraph]_vars

\* ---- properties -------------------------------------------------------
\* thread t returns from update in this step
UpdateReturns(t) == pc[t] = "check" /\ op[t].kind = "update" /\ pc'[t] = "idle"

\* thread t returns a facade from a property read in this step
FacadeReturns(t) == pc[t] = "check" /\ op[t].kind \in Frameworks /\ pc'[t] = "idle"

\* the frameworks an update call was asked to refresh
Flagged(o) ==
  {fw \in Frameworks : \/ (fw = "enterprise" /\ o.enterprise)
                       \/ (fw = "preattack" /\ o.preattack)
                       \/ (fw = "mobile" /\ o.mobile)}

\* C1: when update(X=True) returns, the slot of framework X holds an object
\* that a get_data call of this update, made with force=True, returned.
\* (For a framework not yet loaded the code does this; the claim is about a
\* framework that already is.)
C1_RefreshReplacesBundle ==
  [][\A t \in Threads : UpdateReturns(t) =>
       \A fw \in Flagged(op[t]) :
         \E r \in asked[t] : /\ r.data_type = TypeOf(MainSlot(fw))
                              /\ r.force
                              /\ slots[MainSlot(fw)].call = r.call]_vars

C4_UpdateAsksEveryDataset ==
  [][\A t \in Threads : UpdateReturns(t) =>
       \A d \in DataTypes : \E r \in asked[t] : r.data_type = d /\ r.force]_vars

\* C5: the step in which get_data raises ends the call with the error, builds
\* no facade and changes no slot; no step of any call changes a slot that
\* holds a bundle; and a call reaches get_data only for a slot that holds
\* none, so a loaded framework is read without a request that could fail.
C5_FailureIsolated ==
  /\ [][\A t \in Threads : pc[t] = "fetch" /\ result'[t].kind = "error" =>
          /\ slots' = slots
          /\ built' = built
          /\ pc'[t] = "idle"]_vars
  /\ [][\A s \in Slots : Truthy(slots[s]) => slots'[s] = slots[s]]_vars
  /\ [](\A t \in Threads : pc[t] \in {"fetch", "store"} => ~Truthy(slots[Head(todo[t]).slot]))

\* reading mobile failed while PRE-ATT&CK was loaded, and PRE-ATT&CK still is
C5_Witness ==
  /\ result[Main] = Raised("mobile")
  /\ Truthy(slots["PRE_ATTCK_JSON"])
  /\ held.kind = "facade" /\ held.fw = "preattack"
  /\ held.bundle = slots["PRE_ATTCK_JSON"]

\* C6: no framework has had more facades constructed than bundles loaded
\* into its slot.
C6_OneFacadePerLoad ==
  \A fw \in Frameworks : built[fw] <= writes[MainSlot(fw)]

\* C7: every Enterprise facade is built with the flag its instance was
\* constructed with, and no step changes the flag of a constructed instance.
C7_NestedFixedPerInstance ==
  /\ [][\A t \in Threads : FacadeReturns(t) /\ op[t].kind = "enterprise" =>
          result'[t].nested = FlagGiven(op[t].inst)]_vars
  /\ [][\A i \in 1..Len(nested) : nested'[i] = nested[i] /\ nested[i] = FlagGiven(i)]_vars

\* two instances with different flags got facades over the same bundle, the
\* first nested, the second flat
C7_Witness ==
  /\ held.kind = "facade" /\ held.fw = "enterprise" /\ held.nested
  /\ result[Main].kind = "facade" /\ result[Main].fw = "enterprise"
  /\ ~result[Main].nested
  /\ held.bundle = result[Main].bundle /\ Truthy(held.bundle)

\* C8 as stated: every data_type asked for is in the interface enum.
C8_AsksInterfaceEnum ==
  \A t \in Threads : \A r \in asked[t] : r.data_type \in InterfaceEnum

\* C8 amended: every data_type asked for is one of enterprise, preattck,
\* mobile, generated_data, nist_data, and PRE-ATT&CK is asked for as preattck.
C8_AsksCodeNames ==
  \A t \in Threads : \A r \in asked[t] :
    /\ r.data_type \in {"enterprise", "preattck", "mobile", "generated_data", "nist_data"}
    /\ op[t].kind = "preattack" => r.data_type = "preattck"
    /\ r.data_type = "preattck" => op[t].kind \in {"preattack", "update"}

\* reading preattack has asked the dataset cache for preattck
C8_Witness ==
  /\ op[Main].kind = "preattack"
  /\ \E r \in asked[Main] : r.data_type = "preattck"

\* C9: with a reader beside a thread that loads or force-refreshes, every
\* facade returned is built over an object that a get_data call for its
\* framework returned, never over None.
C9_FacadeOverReturnedBundle ==
  \A t \in Threads : result[t].kind = "facade" =>
    /\ result[t].bundle # None
    /\ result[t].bundle.call \in 1..calls[TypeOf(MainSlot(result[t].fw))]
    /\ result[t].bundle.content \in Contents

\* the reader returned a facade over the bundle it loaded while the other
\* thread has since replaced the slot's bundle by its own
C9_Witness ==
  /\ result[Main].kind = "facade"
  /\ Truthy(result[Main].bundle)
  /\ Truthy(slots[MainSlot(result[Main].fw)])
  /\ slots[MainSlot(result[Main].fw)] # result[Main].bundle

\* C10: with two threads reading, a slot that has been given a non-empty
\* bundle is not written a second time.
C10_NoSecondWrite ==
  [][\A s \in Slots : writes[s] >= 1 /\ Truthy(slots[s]) => writes'[s] = writes[s]]_vars

\* the subtechnique lists of a run of parents, one after the other
RECURSIVE Attached(_, _)
Attached(b, parents) ==
  IF parents = << >> THEN << >>
  ELSE Subtechniques(b, Head(parents)) \o Attached(b, Tail(parents))

\* every technique the facade with nesting shows: its top level, then what
\* hangs under each top-level technique
NestedListing(b, nestedFlag) ==
  Techniques(b, nestedFlag) \o Attached(b, Techniques(b, nestedFlag))

\* the listing with nesting shows exactly the techniques of the top level
\* without nesting, each once
SamePartition(b, withNesting, withoutNesting) ==
  /\ Range(NestedListing(b, withNesting)) = Range(Techniques(b, withoutNesting))
  /\ Cardinality(Range(NestedListing(b, withNesting))) = Len(NestedListing(b, withNesting))

\* the parents the bundle's subtechnique-of objects name for a technique
ParentsOf(b, t) ==
  {e.target : e \in {r \in Range(b.rels) :
                       r.relationship_type = "subtechnique-of" /\ r.source = t}}

\* a technique carries the subtechnique flag exactly when the bundle names a
\* parent for it, and then it names one parent, a technique of the bundle
\* that is not itself a subtechnique
WellNested(b) ==
  \A t \in Partition("technique") :
    /\ t \in b.flagged <=> ParentsOf(b, t) # {}
    /\ t \in b.flagged =>
         /\ Cardinality(ParentsOf(b, t)) = 1
         /\ ParentsOf(b, t) \subseteq Partition("technique") \ b.flagged

MitigatesResolved(b) ==
  \A e \in Range(b.rels) :
    e.relationship_type = "mitigates" => e.source \in EntityIds /\ e.target \in EntityIds

\* C12: in a bundle whose mitigates relationships reference present objects,
\* every technique T a facade exposes (at top level or under a parent) is
\* among M.techniques for each mitigation M of T.mitigations, and every
\* mitigation M of the facade is among T.mitigations for each technique T of
\* M.techniques.
C12_RelationshipSymmetry ==
  MitigatesResolved(objects) =>
    \A f \in Facades :
      /\ \A T \in Range(NestedListing(objects, f.nested)) :
           \A M \in Range(MitigationsOf(objects, T)) :
             T \in Range(TechniquesOf(objects, M))
      /\ \A M \in Range(Mitigations(objects)) :
           \A T \in Range(TechniquesOf(objects, M)) :
             M \in Range(MitigationsOf(objects, T))

\* M1 mitigates T1 and T2, and a technique is also named as source of a
\* mitigates object towards T1: M1.techniques was read as T1, T2 and
\* T1.mitigations is M1 alone
C12_Witness ==
  /\ MitigatesResolved(objects)
  /\ seen.accessor = "techniques" /\ seen.of = "M1" /\ seen.out = << "T1", "T2" >>
  /\ MitigationsOf(objects, "T1") = << "M1" >>
  /\ \E e \in Range(objects.rels) :
       e.relationship_type = "mitigates" /\ e.source = "T3" /\ e.target = "T1"

\* the slots that belong to a framework
FrameworkSlots(fw) ==
  CASE fw = "enterprise" -> {"ENTERPRISE_ATTCK_JSON", "ENTERPRISE_GENERATED_DATA_JSON",
                             "ENTERPRISE_NIST_DATA_JSON"}
    [] fw = "preattack"  -> {"PRE_ATTCK_JSON"}
    [] fw = "mobile"     -> {"MOBILE_ATTCK_JSON"}

\* the slots within reach of a call: those of the framework read, or of the
\* frameworks an update names
Scope(o) ==
  IF o.kind \in Frameworks THEN FrameworkSlots(o.kind)
  ELSE UNION {FrameworkSlots(fw) : fw \in Flagged(o)}

C14_AllEnterpriseSlotsPopulated ==
  [][\A t \in Threads : FacadeReturns(t) /\ op[t].kind = "enterprise" =>
       \A s \in FrameworkSlots("enterprise") : Truthy(slots[s]) /\ Truthy(slots'[s])]_vars

\* the reader got its facade after it found the first slot filled by the
\* other thread, which has fetched nothing else yet, and loaded the other two
\* slots itself
C14_Witness ==
  /\ result[Main].kind = "facade" /\ result[Main].fw = "enterprise"
  /\ op["other"].kind = "enterprise" /\ pc["other"] = "check"
  /\ Len(todo["other"]) = 2
  /\ asked["other"] = {[call |-> 1, force |-> FALSE, data_type |-> "enterprise"]}
  /\ calls["enterprise"] = 1 /\ calls["generated_data"] = 1 /\ calls["nist_data"] = 1
  /\ \A s \in FrameworkSlots("enterprise") : Truthy(slots[s])

\* slot s held no bundle when the call thread t is in began: it holds none
\* now, or it holds the object a request of this call returned
EmptyAtStart(t, s) ==
  \/ ~Truthy(slots[s])
  \/ \E r \in asked[t] : r.data_type = TypeOf(s) /\ r.call = slots[s].call

\* C15: every get_data request of a property read carries force=False and
\* every request of an update carries force=True; no call asks twice for one
\* data type; and when update returns, for each framework it names whose
\* slots all held no bundle when it began, each of the framework's data
\* types has been requested exactly once, with force=True.
C15_ForceOnlyThroughUpdate ==
  /\ [](\A t \in Threads : \A r \in asked[t] : r.force <=> op[t].kind = "update")
  /\ [](\A t \in Threads : \A r, q \in asked[t] : r.data_type = q.data_type => r = q)
  /\ [][\A t \in Threads : UpdateReturns(t) =>
          \A fw \in Flagged(op[t]) :
            (\A s \in FrameworkSlots(fw) : EmptyAtStart(t, s)) =>
              \A s \in FrameworkSlots(fw) :
                Cardinality({r \in asked[t] : r.data_type = TypeOf(s) /\ r.force}) = 1]_vars

\* update(enterprise=True) on empty slots is about to return after one forced
\* request for each of the three enterprise data types
C15_Witness ==
  /\ op[Main].kind = "update" /\ op[Main].enterprise
  /\ pc[Main] = "check" /\ todo[Main] = << >>
  /\ asked[Main] = {[call |-> 1, force |-> TRUE, data_type |-> d] :
                      d \in {"enterprise", "generated_data", "nist_data"}}
  /\ \A s \in FrameworkSlots("enterprise") : writes[s] = 1 /\ slots[s].call = 1

\* thread t's get_data call for generated_data or nist_data raises in this
\* step, inside an enterprise load
SecondaryFetchRaises(t) ==
  /\ pc[t] = "fetch"
  /\ result'[t].kind = "error"
  /\ Head(todo[t]).data_type \in {"generated_data", "nist_data"}

\* C16: when get_data raises for generated_data or nist_data in an enterprise
\* load, the call ends with the error and builds no facade, every enterprise
\* slot keeps its value (what this load fetched before stays stored, the
\* slot of the failed request stays empty); and a read of enterprise reaches
\* get_data only for a slot that holds no bundle.
C16_PartialEnterpriseLoad ==
  /\ [][\A t \in Threads : SecondaryFetchRaises(t) =>
          /\ result'[t] = Raised(op[t].kind)
          /\ pc'[t] = "idle"
          /\ built' = built
          /\ \A s \in FrameworkSlots("enterprise") : slots'[s] = slots[s]
          /\ \A s \in FrameworkSlots("enterprise") :
               \A r \in asked[t] :
                 r.data_type = TypeOf(s) => slots'[s].call = r.call
          /\ ~Truthy(slots'[Head(todo[t]).slot])]_vars
  /\ [][\A t \in Threads :
          op[t].kind = "enterprise" /\ calls' # calls /\ pc[t] = "fetch" =>
            /\ ~Truthy(slots[Head(todo[t]).slot])
            /\ \A s \in FrameworkSlots("enterprise") :
                 Truthy(slots[s]) => calls'[TypeOf(s)] = calls[TypeOf(s)]]_vars

\* the read after a failed one: the enterprise bundle of the first read is
\* still in its slot and was not requested again, generated_data, whose
\* first request raised, has been requested a second time
C16_Witness ==
  /\ op[Main].kind = "enterprise" /\ pc[Main] = "store"
  /\ asked[Main] = {[call |-> 2, force |-> FALSE, data_type |-> "generated_data"]}
  /\ calls["enterprise"] = 1 /\ calls["generated_data"] = 2 /\ calls["nist_data"] = 0
  /\ slots["ENTERPRISE_ATTCK_JSON"] = [call |-> 1, content |-> "full"]
  /\ writes["ENTERPRISE_ATTCK_JSON"] = 1
  /\ slots["ENTERPRISE_GENERATED_DATA_JSON"] = None
  /\ writes["ENTERPRISE_GENERATED_DATA_JSON"] = 0

TypeOK ==
  /\ \A s \in Slots : slots[s].call \in 0..calls[TypeOf(s)]
  /\ \A s \in Slots : slots[s] = None \/ slots[s].content \in Contents
  /\ \A t \in Threads : pc[t] \in {"idle", "check", "fetch", "store"}
  /\ TotalCalls <= MaxCalls
  /\ TotalBuilt <= MaxBuilt
====
